---------------------------- MODULE Spec2Model ----------------------------
(***************************************************************************)
(* Journal summarizer: the progress ledger (src/src/progress_manager.py),  *)
(* the translation retry/fallback engine (src/src/translator.py) and the   *)
(* orchestrating loop (src/main.py).                                       *)
(*                                                                         *)
(* Time is an integer clock `now`; one day is DayTicks ticks.  A file is a *)
(* sequence of tokens (the JSON text cut at the places a write can stop);  *)
(* the directory `fs` maps the names of the files that exist to their      *)
(* contents.  Paper ids are integers; an abstract is a sequence of         *)
(* character codes.                                                        *)
(***************************************************************************)
EXTENDS Integers, Sequences, FiniteSets, TLC

(* ------------------------------ bounds ------------------------------- *)
\* ticks of the clock per day
DayTicks == 2
\* backup_count ranges over 0..MaxBackupCount
MaxBackupCount == 2
\* how many steps the environment takes (constructing, calling a method,
\* advancing the clock) where save() and load() are driven
LedgerFuel == 4
\* the same where only add_processed and cleanup are driven
CallsFuel == 4
\* max_retries ranges over 0..MaxRetriesBound where translate() is driven
MaxRetriesBound == 3
\* how many translate() calls are driven
TranslateFuel == 2
\* how many steps the environment takes around the runs of main(): starting
\* a run, advancing the clock
MainFuel == 2
\* max_retries in the runs of main()
MainRetries == 1

(* ------------------------- program constants ------------------------- *)
\* progress_manager.py:116-117, the size trim's high-water mark
TrimLimit == 500
\* progress_manager.py:31, the default retention window in days
DefaultRetention == 90
\* progress_manager.py:31, main.py:90: the default of backup_count
DefaultBackupCount == 5
\* progress_manager.py:101,103: None (a JSON null)
None == -1
\* a last_processed string that datetime.fromisoformat rejects
BadStamp == -2
\* the clock at Init, in ticks
T0 == 400
\* translator.py:36, the default of max_retries
DefaultMaxRetries == 3
\* translator.py:37, the default of retry_delay, in seconds
DefaultRetryDelay == 2
\* translator.py:76, the longest backoff delay, in seconds
MaxSleep == 60
\* translator.py:152, the length the fallback truncates the abstract to
FallbackLen == 300

Journals == {"X", "Y"}
\* the order in which json.dump writes the keys present
JournalOrder == <<"X", "Y">>

(* ------------------------------ ledger ------------------------------- *)
\* progress_manager.py:36,41,63: self._data = {}
EmptyLedger == [j \in {} |-> 0]

\* progress_manager.py:100-105: the record setdefault creates
NewRecord ==
  [last_processed |-> None, processed_ids |-> <<>>,
   last_success |-> None, error_count |-> 0]

Range(s) == {s[i] : i \in 1..Len(s)}

Contains(s, x) == \E i \in 1..Len(s) : s[i] = x

\* the last n elements of s, s[-n:] for n <= Len(s)
LastN(s, n) == SubSeq(s, Len(s) - n + 1, Len(s))

\* progress_manager.py:95-97
is_processed(d, journal, paper_id) ==
  /\ journal \in DOMAIN d
  /\ Contains(d[journal].processed_ids, paper_id)


\* add_processed without the membership test of line 106: C7 fails for it
add_processed_always_appends(d, journal, paper_id, t) ==
  LET j == IF journal \in DOMAIN d THEN d[journal] ELSE NewRecord
  IN [k \in DOMAIN d \cup {journal} |->
        IF k = journal
        THEN [j EXCEPT !.processed_ids = Append(@, paper_id),
                       !.last_processed = t,
                       !.last_success = t]
        ELSE d[k]]

\* add_processed putting a new id in front of the list: C20 fails for it
add_processed_in_front(d, journal, paper_id, t) ==
  LET j == IF journal \in DOMAIN d THEN d[journal] ELSE NewRecord
      ids == IF Contains(j.processed_ids, paper_id)
             THEN j.processed_ids
             ELSE <<paper_id>> \o j.processed_ids
  IN [k \in DOMAIN d \cup {journal} |->
        IF k = journal
        THEN [j EXCEPT !.processed_ids = ids,
                       !.last_processed = t,
                       !.last_success = t]
        ELSE d[k]]

\* add_processed starting the list afresh with a new id: C22 fails for it
add_processed_afresh(d, journal, paper_id, t) ==
  LET j == IF journal \in DOMAIN d THEN d[journal] ELSE NewRecord
      ids == IF Contains(j.processed_ids, paper_id)
             THEN j.processed_ids
             ELSE <<paper_id>>
  IN [k \in DOMAIN d \cup {journal} |->
        IF k = journal
        THEN [j EXCEPT !.processed_ids = ids,
                       !.last_processed = t,
                       !.last_success = t]
        ELSE d[k]]

\* add_processed counting its calls in error_count: C25 fails for it
add_processed_counting(d, journal, paper_id, t) ==
  LET j == IF journal \in DOMAIN d THEN d[journal] ELSE NewRecord
      ids == IF Contains(j.processed_ids, paper_id)
             THEN j.processed_ids
             ELSE Append(j.processed_ids, paper_id)
  IN [k \in DOMAIN d \cup {journal} |->
        IF k = journal
        THEN [j EXCEPT !.processed_ids = ids,
                       !.last_processed = t,
                       !.last_success = t,
                       !.error_count = @ + 1]
        ELSE d[k]]

\* progress_manager.py:99-109; t is datetime.now()
add_processed(d, journal, paper_id, t) ==
  LET j == IF journal \in DOMAIN d THEN d[journal] ELSE NewRecord
      ids == IF Contains(j.processed_ids, paper_id)
             THEN j.processed_ids
             ELSE Append(j.processed_ids, paper_id)
  IN [k \in DOMAIN d \cup {journal} |->
        IF k = journal
        THEN [j EXCEPT !.processed_ids = ids,
                       !.last_processed = t,
                       !.last_success = t]
        ELSE d[k]]

\* progress_manager.py:112: datetime.now() - timedelta(days=retention_days)
Cutoff(t, days) == t - days * DayTicks

\* an eviction that also takes a journal stamped exactly at the cutoff: C15
\* fails for it
Stale_at_cutoff(info, t, days) ==
  /\ info.last_processed # None
  /\ info.last_processed # BadStamp
  /\ info.last_processed <= Cutoff(t, days)

\* progress_manager.py:119-127: `if last:` is false for None, fromisoformat
\* raises ValueError on a malformed string, and dt < cutoff deletes
Stale(info, t, days) ==
  /\ info.last_processed # None
  /\ info.last_processed # BadStamp
  /\ info.last_processed < Cutoff(t, days)

\* a trim that keeps the oldest ids: C14 fails for it
Trimmed_oldest(processed) ==
  IF Len(processed) > TrimLimit THEN SubSeq(processed, 1, TrimLimit) ELSE processed

\* progress_manager.py:114-117
Trimmed(processed) ==
  IF Len(processed) > TrimLimit THEN LastN(processed, TrimLimit) ELSE processed

\* progress_manager.py:111-127
cleanup(d, t, days) ==
  [j \in {k \in DOMAIN d : ~Stale(d[k], t, days)} |->
     [d[j] EXCEPT !.processed_ids = Trimmed(@)]]

(* ------------------------------- files ------------------------------- *)
Tok(tag, name, num, ids) == [tag |-> tag, name |-> name, num |-> num, ids |-> ids]

\* a writer that emits processed_ids back to front: C3 fails for it
SerJournal_reversed(d, j) ==
  LET ids == d[j].processed_ids
  IN << Tok("key", j, 0, <<>>),
        Tok("null_or_str", "last_processed", d[j].last_processed, <<>>),
        Tok("list", "processed_ids", 0, [i \in 1..Len(ids) |-> ids[Len(ids) + 1 - i]]),
        Tok("null_or_str", "last_success", d[j].last_success, <<>>),
        Tok("int", "error_count", d[j].error_count, <<>>) >>

\* one journal's key and record as json.dump writes them
SerJournal(d, j) ==
  << Tok("key", j, 0, <<>>),
     Tok("null_or_str", "last_processed", d[j].last_processed, <<>>),
     Tok("list", "processed_ids", 0, d[j].processed_ids),
     Tok("null_or_str", "last_success", d[j].last_success, <<>>),
     Tok("int", "error_count", d[j].error_count, <<>>) >>

RECURSIVE SerFrom(_, _)
SerFrom(d, k) ==
  IF k > Len(JournalOrder) THEN <<>>
  ELSE (IF JournalOrder[k] \in DOMAIN d THEN SerJournal(d, JournalOrder[k]) ELSE <<>>)
       \o SerFrom(d, k + 1)

\* progress_manager.py:85: json.dump(self._data, f, ...)
Serialize(d) ==
  <<Tok("{", "", 0, <<>>)>> \o SerFrom(d, 1) \o <<Tok("}", "", 0, <<>>)>>

FieldsPerJournal == 5

\* whether json.load accepts the text: the object is closed and every
\* member is a key followed by its four fields
Parses(c) ==
  /\ Len(c) >= 2
  /\ c[1].tag = "{"
  /\ c[Len(c)].tag = "}"
  /\ (Len(c) - 2) % FieldsPerJournal = 0
  /\ \A g \in 0..(((Len(c) - 2) \div FieldsPerJournal) - 1) :
       LET b == 1 + g * FieldsPerJournal
       IN /\ c[b + 1].tag = "key"
          /\ c[b + 2].name = "last_processed"
          /\ c[b + 3].name = "processed_ids"
          /\ c[b + 4].name = "last_success"
          /\ c[b + 5].name = "error_count"

\* progress_manager.py:45,58: json.load(f) of a text that parses
ParseOf(c) ==
  LET n == (Len(c) - 2) \div FieldsPerJournal
      Base(g) == 1 + g * FieldsPerJournal
      GroupOf(j) == CHOOSE g \in 0..(n - 1) : c[Base(g) + 1].name = j
  IN [j \in {c[Base(g) + 1].name : g \in 0..(n - 1)} |->
        LET b == Base(GroupOf(j))
        IN [last_processed |-> c[b + 2].num,
            processed_ids |-> c[b + 3].ids,
            last_success |-> c[b + 4].num,
            error_count |-> c[b + 5].num]]

\* a text json.load rejects
Garbage == <<Tok("garbage", "", 0, <<>>)>>

\* where a write that stops early stops: the length of the text written;
\* every proper prefix lacks the closing brace, the longest one is taken
Cuts(c) == {k \in {Len(c) - 1} : 0 <= k}

Prefix(c, k) == SubSeq(c, 1, k)

\* progress_manager.py:32: self.file_path
LiveName == [kind |-> "live", ts |-> 0]
\* progress_manager.py:80: file_path + '.tmp'
TmpName == [kind |-> "tmp", ts |-> 0]
\* progress_manager.py:68-69: f"{base}.{timestamp}.bak"
BakName(t) == [kind |-> "bak", ts |-> t]

\* progress_manager.py:53,71: f.startswith(base + '.')
HasBasePrefix(n) == n.kind \in {"tmp", "bak"}

\* the string order of two names that start with base + '.': the letter t of
\* "tmp" is above every digit, and the timestamps have a fixed width
NameAbove(a, b) ==
  \/ a.kind = "tmp" /\ b.kind = "bak"
  \/ a.kind = "bak" /\ b.kind = "bak" /\ a.ts > b.ts

RECURSIVE SortDesc(_)
\* progress_manager.py:54,72: backups.sort(reverse=True)
SortDesc(S) ==
  IF S = {} THEN <<>>
  ELSE LET top == CHOOSE a \in S : \A b \in S \ {a} : NameAbove(a, b)
       IN <<top>> \o SortDesc(S \ {top})

\* progress_manager.py:53-54,71-72: the listing both callers build
ListBackups(f) == SortDesc({n \in DOMAIN f : HasBasePrefix(n)})

Put(f, n, c) == [m \in DOMAIN f \cup {n} |-> IF m = n THEN c ELSE f[m]]

Remove(f, n) == [m \in DOMAIN f \ {n} |-> f[m]]

Exists(f, n) == n \in DOMAIN f

\* the sequence s without its first n elements, s[n:]
Drop(s, n) == IF n >= Len(s) THEN <<>> ELSE SubSeq(s, n + 1, Len(s))

RECURSIVE FirstParsing(_, _)
\* progress_manager.py:55-63: the first listed file that json.load accepts
FirstParsing(f, backups) ==
  IF backups = <<>> THEN EmptyLedger
  ELSE IF Parses(f[Head(backups)]) THEN ParseOf(f[Head(backups)])
  ELSE FirstParsing(f, Tail(backups))

\* progress_manager.py:50-63
recover_from_backup(f) == FirstParsing(f, ListBackups(f))

\* progress_manager.py:39-48: the value load() leaves in self._data
load(f) ==
  IF ~Exists(f, LiveName) THEN EmptyLedger
  ELSE IF Parses(f[LiveName]) THEN ParseOf(f[LiveName])
  ELSE recover_from_backup(f)

(* ------------------------------- state ------------------------------- *)
VARIABLES
  now,             \* the clock, datetime.now()
  fs,              \* the ledger's directory: name -> contents
  pc,              \* where the process is
  data,            \* ProgressManager._data
  backup_count,    \* ProgressManager.backup_count
  retention_days,  \* ProgressManager.retention_days
  oldFiles,        \* _rotate_backups: backups[self.backup_count:] still to remove
  saveErr,         \* save(): the except branch was entered
  rmFailed,        \* save(): os.remove(temp_path) raised OSError
  preFs,           \* the directory when save() was entered
  preData,         \* self._data when save() was entered
  lastCall,        \* the last ledger method called, and with what
  fuel,            \* how many steps the environment may still take
  max_retries,     \* BaseTranslator.max_retries
  retry_delay,     \* BaseTranslator.retry_delay
  tpc,             \* where translate() is
  abstract,        \* translate(): the abstract argument
  attempt,         \* _retry_loop: attempt
  invocations,     \* _retry_loop: how many times func() was called
  sleeps,          \* _retry_loop: the delays slept, in order
  err,             \* _retry_loop: the exception caught last
  raised,          \* the exception that left _retry_loop
  result,          \* what translate() returned
  force,           \* main: args.force
  dry_run,         \* main: args.dry_run
  feed,            \* main: the journals still to visit, with their entries
  entries,         \* main: the entries of the current journal still to visit
  journal_name,    \* main: the current journal
  entry,           \* main: the entry being translated
  log,             \* main: what was done with each entry met in this run
  ogCalls,         \* main: calls made to the output generator in this run
  processed_count  \* main: processed_count

config == <<backup_count, retention_days>>

saveVars == <<oldFiles, saveErr, rmFailed, preFs, preData>>

transConfig == <<max_retries, retry_delay>>

transVars == <<tpc, abstract, attempt, invocations, sleeps, err, raised, result>>

mainVars ==
  <<force, dry_run, feed, entries, journal_name, entry, log, ogCalls, processed_count>>

\* what no step of the ledger touches
rest == <<config, transConfig, transVars, mainVars>>

\* what no step of translate() touches
outside == <<now, fs, pc, data, config, saveVars, lastCall, fuel, transConfig, mainVars>>

vars ==
  <<now, fs, pc, data, config, saveVars, lastCall, fuel, transConfig, transVars,
    mainVars>>

(* --------------------------- initial states --------------------------- *)
\* a record as an earlier run left it
Rec(ids, stamp) ==
  [last_processed |-> stamp, processed_ids |-> ids,
   last_success |-> stamp, error_count |-> 0]

\* one id more than the size trim keeps
LongIds == [i \in 1..(TrimLimit + 1) |-> i]

\* ledgers a first run can find on disk
InitLedgers ==
  { [j \in {"X"} |-> Rec(<<1>>, T0 - (DefaultRetention - 1) * DayTicks)],
    [j \in {"X"} |-> Rec(LongIds, T0 - 1)],
    [j \in {"X", "Y"} |->
       IF j = "X" THEN Rec(<<1>>, None)
       ELSE Rec(<<4, 3>>, T0 - (DefaultRetention + 1) * DayTicks)],
    [j \in {"Y"} |-> [Rec(<<3>>, BadStamp) EXCEPT !.error_count = 7]] }

EmptyDir == [n \in {} |-> <<>>]

InitDisks == {EmptyDir} \cup {Put(EmptyDir, LiveName, Serialize(l)) : l \in InitLedgers}

\* the directories save() and load() are driven from
SmallDisks == {f \in InitDisks : \A n \in DOMAIN f : Len(f[n]) <= 2 + 2 * FieldsPerJournal}

\* the ids the callers pass
PaperIds == {1, TrimLimit + 2}

\* progress_manager.py:31, config_loader.py:106-108
RetentionChoices == {0, DefaultRetention}

\* the method called last: its name, its arguments, and whether the id was
\* in the ledger when it was called
Call(op, j, p, hit) == [op |-> op, journal |-> j, paper_id |-> p, hit |-> hit]

\* one step of the environment
Spend ==
  /\ fuel > 0
  /\ fuel' = fuel - 1

\* a feed entry: its id and the abstract extract_paper_info finds for it
Entry(id, a) == [id |-> id, abstract |-> a]

NoEntry == Entry(0, <<>>)

\* no process yet, or one that has constructed its ProgressManager
\* (main.py:89-91)
InitProcess ==
  /\ now = T0
  /\ fs \in InitDisks
  /\ pc \in {"none", "ready", "caller"}
  /\ data = IF pc = "none" THEN EmptyLedger ELSE load(fs)
  /\ oldFiles = <<>>
  /\ saveErr = FALSE
  /\ rmFailed = FALSE
  /\ preFs = EmptyDir
  /\ preData = EmptyLedger
  /\ lastCall = Call("load", "", 0, FALSE)
  /\ force = FALSE
  /\ dry_run = FALSE
  /\ feed = <<>>
  /\ entries = <<>>
  /\ journal_name = ""
  /\ entry = NoEntry
  /\ log = <<>>
  /\ ogCalls = 0
  /\ processed_count = 0

(* ------------------------- ledger operations -------------------------- *)
\* progress_manager.py:31-37: __init__, which ends with load()
construct ==
  /\ Spend
  /\ data' = load(fs)
  /\ lastCall' = Call("load", "", 0, FALSE)
  /\ UNCHANGED <<now, fs, config, saveVars>>

\* progress_manager.py:79-83: save() up to the test of os.path.exists
save_enter ==
  /\ preFs' = fs
  /\ preData' = data
  /\ saveErr' = FALSE
  /\ rmFailed' = FALSE
  /\ oldFiles' = <<>>
  /\ pc' = IF Exists(fs, LiveName) THEN "copy" ELSE "write"
  /\ lastCall' = Call("save", "", 0, FALSE)
  /\ UNCHANGED <<now, fs, data, config>>

\* progress_manager.py:68-72: shutil.copy2 to the timestamped name, then the
\* listing; a copy that raises may leave nothing or part of the file
RotateCopy ==
  /\ pc = "copy"
  /\ \/ /\ fs' = Put(fs, BakName(now), fs[LiveName])
        /\ oldFiles' = Drop(ListBackups(fs'), backup_count)
        /\ pc' = "prune"
        /\ UNCHANGED saveErr
     \/ /\ \/ fs' = fs
           \/ \E k \in Cuts(fs[LiveName]) :
                fs' = Put(fs, BakName(now), Prefix(fs[LiveName], k))
        /\ pc' = "except"
        /\ saveErr' = TRUE
        /\ UNCHANGED oldFiles
  /\ UNCHANGED <<now, data, rest, rmFailed, preFs, preData, lastCall, fuel>>

\* progress_manager.py:73-77: one turn of the removal loop
RotatePrune ==
  /\ pc = "prune"
  /\ IF oldFiles = <<>>
     THEN /\ pc' = "write"
          /\ UNCHANGED <<fs, oldFiles>>
     ELSE /\ \/ fs' = Remove(fs, Head(oldFiles))
             \/ fs' = fs
          /\ oldFiles' = Tail(oldFiles)
          /\ UNCHANGED pc
  /\ UNCHANGED <<now, data, rest, saveErr, rmFailed, preFs, preData, lastCall, fuel>>

\* progress_manager.py:84-85: open(temp_path, 'w') and json.dump; a write
\* that raises may leave nothing new or part of the text
WriteTmp ==
  /\ pc = "write"
  /\ \/ /\ fs' = Put(fs, TmpName, Serialize(data))
        /\ pc' = "replace"
        /\ UNCHANGED saveErr
     \/ /\ \/ fs' = fs
           \/ \E k \in Cuts(Serialize(data)) :
                fs' = Put(fs, TmpName, Prefix(Serialize(data), k))
        /\ pc' = "except"
        /\ saveErr' = TRUE
  /\ UNCHANGED <<now, data, rest, oldFiles, rmFailed, preFs, preData, lastCall, fuel>>

\* a save that copies the temporary file over the live file instead of
\* renaming it, so that a failed copy leaves part of the text: C2 fails for it
Replace_by_copy ==
  /\ pc = "replace"
  /\ \/ /\ fs' = Put(Remove(fs, TmpName), LiveName, fs[TmpName])
        /\ pc' = "saved"
        /\ UNCHANGED saveErr
     \/ /\ \E k \in Cuts(fs[TmpName]) :
             fs' = Put(fs, LiveName, Prefix(fs[TmpName], k))
        /\ pc' = "except"
        /\ saveErr' = TRUE
  /\ UNCHANGED <<now, data, rest, oldFiles, rmFailed, preFs, preData, lastCall, fuel>>

\* progress_manager.py:86: os.replace(temp_path, self.file_path)
Replace ==
  /\ pc = "replace"
  /\ \/ /\ fs' = Put(Remove(fs, TmpName), LiveName, fs[TmpName])
        /\ pc' = "saved"
        /\ UNCHANGED saveErr
     \/ /\ fs' = fs
        /\ pc' = "except"
        /\ saveErr' = TRUE
  /\ UNCHANGED <<now, data, rest, oldFiles, rmFailed, preFs, preData, lastCall, fuel>>

\* an except branch that only logs and leaves the temporary file: C6 fails
\* for it
SaveExcept_keeps_tmp ==
  /\ pc = "except"
  /\ pc' = "saved"
  /\ UNCHANGED <<now, fs, data, rest, oldFiles, saveErr, rmFailed, preFs, preData,
                 lastCall, fuel>>

\* progress_manager.py:87-93: the except branch
SaveExcept ==
  /\ pc = "except"
  /\ IF Exists(fs, TmpName)
     THEN \/ fs' = Remove(fs, TmpName) /\ UNCHANGED rmFailed
          \/ fs' = fs /\ rmFailed' = TRUE
     ELSE UNCHANGED <<fs, rmFailed>>
  /\ pc' = "saved"
  /\ UNCHANGED <<now, data, rest, oldFiles, saveErr, preFs, preData, lastCall, fuel>>

\* the process is killed; a kill during a copy or a write leaves what was
\* written so far; a process is killed once, so kills are as many as starts
kill_process ==
  /\ pc # "none"
  /\ \/ fs' = fs
     \/ /\ pc = "copy"
        /\ \E k \in Cuts(fs[LiveName]) :
             fs' = Put(fs, BakName(now), Prefix(fs[LiveName], k))
     \/ /\ pc = "write"
        /\ \E k \in Cuts(Serialize(data)) :
             fs' = Put(fs, TmpName, Prefix(Serialize(data), k))
  /\ pc' = "none"
  /\ data' = EmptyLedger
  /\ oldFiles' = <<>>
  /\ saveErr' = FALSE
  /\ rmFailed' = FALSE
  /\ preFs' = EmptyDir
  /\ preData' = EmptyLedger
  /\ UNCHANGED <<now, config, lastCall, fuel>>

\* the process that drives the ledger is killed
Kill ==
  /\ kill_process
  /\ UNCHANGED <<transConfig, transVars, mainVars>>

\* the clock advances; only RotateCopy, add_processed and cleanup read it, so
\* a tick inside save() is a tick before or after it
Tick ==
  /\ pc \notin {"copy", "prune", "write", "replace", "except", "saved"}
  /\ Spend
  /\ now' = now + 1
  /\ UNCHANGED <<fs, pc, data, rest, saveVars, lastCall>>

\* the live file is replaced with invalid content while no process runs;
\* doing it again changes nothing
CorruptLive ==
  /\ pc = "none"
  /\ Exists(fs, LiveName)
  /\ fs' = Put(fs, LiveName, Garbage)
  /\ UNCHANGED <<now, pc, data, rest, saveVars, lastCall, fuel>>

(* ----------------------------- translator ---------------------------- *)
\* a text of n characters
Text(n) == [i \in 1..n |-> 97 + (i % 26)]

\* translator.py:152: '...'
Ellipsis == <<46, 46, 46>>

\* translator.py:142: the placeholder '요약 실패'
Placeholder == <<50836, 50557, 32, 49892, 54056>>

\* the text the model answers with
ModelText == <<54620, 44544>>

\* no exception, no result
NoError == "none"

NoResult == [english_abstract |-> <<>>, korean_summary |-> <<>>, set |-> FALSE]

Summary(a, k) == [english_abstract |-> a, korean_summary |-> k, set |-> TRUE]

\* what one exchange with the backend can end in: session.post raises, a
\* status other than 200, a body that is not JSON, a JSON object without the
\* 'response' field, a JSON object with it
Failures == {"ConnectionError", "TranslationError", "ValueError"}

RECURSIVE Pow2(_)
Pow2(n) == IF n = 0 THEN 1 ELSE 2 * Pow2(n - 1)

Min(a, b) == IF a < b THEN a ELSE b

\* a backoff that starts at twice the base delay: C11 fails for it
sleep_time_from_double(delay, n) == Min(delay * Pow2(n), MaxSleep)

\* a backoff without the cap: C13 fails for it
sleep_time_uncapped(delay, n) == delay * Pow2(n - 1)

\* translator.py:76
sleep_time(delay, n) == Min(delay * Pow2(n - 1), MaxSleep)

\* a loop that gives up one attempt earlier: C10 fails for it
exhausted_one_early(n, retries) == n >= retries

\* translator.py:73: the budget is spent
exhausted(n, retries) == n > retries

\* a fallback that truncates from 300 characters on: C8 fails for it
fallback_from_300(a) ==
  Summary(a, IF Len(a) >= FallbackLen THEN SubSeq(a, 1, FallbackLen) \o Ellipsis ELSE a)

\* translator.py:150-153: the fallback result
fallback(a) ==
  Summary(a, IF Len(a) > FallbackLen THEN SubSeq(a, 1, FallbackLen) \o Ellipsis ELSE a)

InitTranslator ==
  /\ tpc = "idle"
  /\ abstract = <<>>
  /\ attempt = 0
  /\ invocations = 0
  /\ sleeps = <<>>
  /\ err = NoError
  /\ raised = NoError
  /\ result = NoResult

\* translate() has returned and its frame is gone
translate_leave ==
  /\ tpc' = "idle"
  /\ abstract' = <<>>
  /\ attempt' = 0
  /\ invocations' = 0
  /\ sleeps' = <<>>
  /\ err' = NoError
  /\ raised' = NoError
  /\ result' = NoResult

\* translator.py:106-122,145-146,67: translate() up to the first func()
translate_enter(a) ==
  /\ tpc = "idle"
  /\ tpc' = "request"
  /\ abstract' = a
  /\ attempt' = 0
  /\ invocations' = 0
  /\ sleeps' = <<>>
  /\ err' = NoError
  /\ raised' = NoError
  /\ result' = NoResult
  /\ UNCHANGED transConfig

\* a do_request that answers a reply without the text field with the
\* truncated abstract: C23 fails for it
RequestSucceeds_truncating ==
  /\ tpc = "request"
  /\ invocations' = invocations + 1
  /\ \/ result' = Summary(abstract, ModelText)
     \/ result' = fallback(abstract)
  /\ tpc' = "returned"
  /\ UNCHANGED <<outside,
                 abstract, attempt, sleeps, err, raised>>

\* translator.py:69-70,123-143: func() returns; a reply without the text
\* field yields the placeholder
RequestSucceeds ==
  /\ tpc = "request"
  /\ invocations' = invocations + 1
  /\ \E text \in {ModelText, Placeholder} : result' = Summary(abstract, text)
  /\ tpc' = "returned"
  /\ UNCHANGED <<outside,
                 abstract, attempt, sleeps, err, raised>>

\* a translate() without the try of lines 145-153, so that the error of the
\* retry loop leaves it and no result is returned: C9 fails for it
RequestFails_uncaught ==
  /\ tpc = "request"
  /\ invocations' = invocations + 1
  /\ attempt' = attempt + 1
  /\ \E e \in Failures : err' = e
  /\ IF exhausted(attempt', max_retries)
     THEN /\ raised' = err'
          /\ result' = NoResult
          /\ tpc' = "returned"
          /\ UNCHANGED sleeps
     ELSE /\ sleeps' = Append(sleeps, sleep_time(retry_delay, attempt'))
          /\ tpc' = "sleep"
          /\ UNCHANGED <<raised, result>>
  /\ UNCHANGED <<outside,
                 abstract>>

\* a loop that computes and takes its delay before it tests the budget, so
\* that it sleeps after the last failure too: C12 fails for it
RequestFails_sleeps_first ==
  /\ tpc = "request"
  /\ invocations' = invocations + 1
  /\ attempt' = attempt + 1
  /\ \E e \in Failures : err' = e
  /\ sleeps' = Append(sleeps, sleep_time(retry_delay, attempt'))
  /\ IF exhausted(attempt', max_retries)
     THEN /\ raised' = err'
          /\ result' = fallback(abstract)
          /\ tpc' = "returned"
     ELSE /\ tpc' = "sleep"
          /\ UNCHANGED <<raised, result>>
  /\ UNCHANGED <<outside,
                 abstract>>

\* a translate() whose error, once the budget is spent, ends the process
\* that called it: C19 fails for it
RequestFails_aborts ==
  /\ tpc = "request"
  /\ IF exhausted(attempt + 1, max_retries)
     THEN /\ pc' = "none"
          /\ data' = EmptyLedger
          /\ tpc' = "idle"
          /\ abstract' = <<>>
          /\ attempt' = 0
          /\ invocations' = 0
          /\ sleeps' = <<>>
          /\ err' = NoError
          /\ raised' = NoError
          /\ result' = NoResult
          /\ force' = FALSE
          /\ dry_run' = FALSE
          /\ feed' = <<>>
          /\ entries' = <<>>
          /\ journal_name' = ""
          /\ entry' = NoEntry
          /\ log' = <<>>
          /\ ogCalls' = 0
          /\ processed_count' = 0
          /\ UNCHANGED <<now, fs, config, saveVars, lastCall, fuel, transConfig>>
     ELSE /\ invocations' = invocations + 1
          /\ attempt' = attempt + 1
          /\ \E e \in Failures : err' = e
          /\ sleeps' = Append(sleeps, sleep_time(retry_delay, attempt'))
          /\ tpc' = "sleep"
          /\ UNCHANGED <<raised, result, outside, abstract>>

\* translator.py:69-78,136-139,147-153: func() raises; the loop sleeps, or
\* re-raises and translate() returns the fallback
RequestFails ==
  /\ tpc = "request"
  /\ invocations' = invocations + 1
  /\ attempt' = attempt + 1
  /\ \E e \in Failures : err' = e
  /\ IF exhausted(attempt', max_retries)
     THEN /\ raised' = err'
          /\ result' = fallback(abstract)
          /\ tpc' = "returned"
          /\ UNCHANGED sleeps
     ELSE /\ sleeps' = Append(sleeps, sleep_time(retry_delay, attempt'))
          /\ tpc' = "sleep"
          /\ UNCHANGED <<raised, result>>
  /\ UNCHANGED <<outside,
                 abstract>>

\* translator.py:78: time.sleep returns and the loop calls func() again
Sleep ==
  /\ tpc = "sleep"
  /\ tpc' = "request"
  /\ UNCHANGED <<outside,
                 abstract, attempt, invocations, sleeps, err, raised, result>>

(* ------------------- translate() driven by a caller -------------------- *)
\* the abstracts the callers pass: around the fallback's length
Abstracts ==
  {Text(n) : n \in {1, FallbackLen - 1, FallbackLen, FallbackLen + 1, FallbackLen + 100}}

\* translator.translate(title, abstract)
Translate ==
  /\ pc = "caller"
  /\ Spend
  /\ \E a \in Abstracts : translate_enter(a)
  /\ UNCHANGED <<now, fs, pc, data, config, saveVars, lastCall, mainVars>>

\* the caller takes the result
TakeResult ==
  /\ pc = "caller"
  /\ tpc = "returned"
  /\ translate_leave
  /\ UNCHANGED outside

\* translator.py:36-37, config_loader.py:86-88
RetryDelays == {DefaultRetryDelay, 40}

InitTranslate ==
  /\ InitProcess
  /\ fs = EmptyDir
  /\ pc = "caller"
  /\ backup_count = 0
  /\ retention_days = DefaultRetention
  /\ fuel = TranslateFuel
  /\ max_retries \in 0..MaxRetriesBound
  /\ retry_delay \in RetryDelays
  /\ InitTranslator

NextTranslate ==
  \/ Translate
  \/ RequestSucceeds
  \/ RequestFails
  \/ Sleep
  \/ TakeResult

SpecTranslate == InitTranslate /\ [][NextTranslate]_vars

\* translator.py:136: the request has a timeout, so func() ends;
\* translator.py:78: time.sleep returns
FairTranslate ==
  /\ SpecTranslate
  /\ WF_vars(RequestSucceeds)
  /\ WF_vars(RequestFails)
  /\ WF_vars(Sleep)

(* ----------------- the ledger driven through its methods --------------- *)
\* ProgressManager(file_path, backup_count, retention_days)
Construct ==
  /\ pc = "none"
  /\ construct
  /\ pc' = "ready"
  /\ UNCHANGED <<transConfig, transVars, mainVars>>

\* pm.add_processed(journal, paper_id) with the arguments drawn from J and P
AddProcessedOf(J, P) ==
  /\ pc = "ready"
  /\ Spend
  /\ \E j \in J, p \in P :
       /\ data' = add_processed(data, j, p, now)
       /\ lastCall' = Call("add_processed", j, p, is_processed(data, j, p))
  /\ UNCHANGED <<now, fs, pc, rest, saveVars>>

\* any journal, an id that may be in the ledger already
AddProcessed == AddProcessedOf(Journals, PaperIds)

\* one journal, an id no initial ledger holds
AddNew == AddProcessedOf({"X"}, {TrimLimit + 2})

\* pm.cleanup()
Cleanup ==
  /\ pc = "ready"
  /\ Spend
  /\ data' = cleanup(data, now, retention_days)
  /\ lastCall' = Call("cleanup", "", 0, FALSE)
  /\ UNCHANGED <<now, fs, pc, rest, saveVars>>

\* pm.save()
Save ==
  /\ pc = "ready"
  /\ Spend
  /\ save_enter
  /\ UNCHANGED <<transConfig, transVars, mainVars>>

\* save() returns to the caller
SaveReturn ==
  /\ pc = "saved"
  /\ pc' = "ready"
  /\ saveErr' = FALSE
  /\ rmFailed' = FALSE
  /\ preFs' = EmptyDir
  /\ preData' = EmptyLedger
  /\ UNCHANGED <<now, fs, data, rest, oldFiles, lastCall, fuel>>

\* save(), load() and the files, with a few calls that change the ledger
InitLedger ==
  /\ InitProcess
  /\ pc = "ready"
  /\ fs \in SmallDisks
  /\ backup_count \in 0..MaxBackupCount
  /\ retention_days = DefaultRetention
  /\ fuel = LedgerFuel
  /\ max_retries = DefaultMaxRetries
  /\ retry_delay = DefaultRetryDelay
  /\ InitTranslator

NextLedger ==
  \/ Construct
  \/ AddNew
  \/ Cleanup
  \/ Save
  \/ RotateCopy
  \/ RotatePrune
  \/ WriteTmp
  \/ Replace
  \/ SaveExcept
  \/ SaveReturn
  \/ Kill
  \/ Tick
  \/ CorruptLive

SpecLedger == InitLedger /\ [][NextLedger]_vars

\* add_processed and cleanup in any order on one loaded ledger
InitCalls ==
  /\ InitProcess
  /\ pc = "ready"
  /\ backup_count = 0
  /\ retention_days \in RetentionChoices
  /\ fuel = CallsFuel
  /\ max_retries = DefaultMaxRetries
  /\ retry_delay = DefaultRetryDelay
  /\ InitTranslator

NextCalls ==
  \/ AddProcessed
  \/ Cleanup
  \/ Tick

SpecCalls == InitCalls /\ [][NextCalls]_vars

(* ------------- every method of the ledger, on short ledgers ------------ *)
\* how many methods are called where every method of the ledger is driven
OpsFuel == 3

\* an is_processed that fetches the record with setdefault, as add_processed
\* does, and so creates it: C21 fails for it
IsProcessed_setdefault ==
  /\ pc = "ready"
  /\ Spend
  /\ \E j \in Journals, p \in PaperIds :
       /\ lastCall' = Call("is_processed", j, p, is_processed(data, j, p))
       /\ data' = [k \in DOMAIN data \cup {j} |->
                    IF k \in DOMAIN data THEN data[k] ELSE NewRecord]
  /\ UNCHANGED <<now, fs, pc, rest, saveVars>>

\* progress_manager.py:95-97: pm.is_processed(journal, paper_id); what it
\* returns is kept in lastCall.hit
IsProcessed ==
  /\ pc = "ready"
  /\ Spend
  /\ \E j \in Journals, p \in PaperIds :
       lastCall' = Call("is_processed", j, p, is_processed(data, j, p))
  /\ UNCHANGED <<now, fs, pc, data, rest, saveVars>>

\* progress_manager.py:129-130: pm.get_state()
GetState ==
  /\ pc = "ready"
  /\ Spend
  /\ lastCall' = Call("get_state", "", 0, FALSE)
  /\ UNCHANGED <<now, fs, pc, data, rest, saveVars>>

\* the directories whose lists are short
OpsDisks ==
  {f \in InitDisks :
     \A n \in DOMAIN f : \A i \in 1..Len(f[n]) : Len(f[n][i].ids) <= 2}

InitOps ==
  /\ InitProcess
  /\ pc = "ready"
  /\ fs \in OpsDisks
  /\ backup_count = 1
  /\ retention_days = DefaultRetention
  /\ fuel = OpsFuel
  /\ max_retries = DefaultMaxRetries
  /\ retry_delay = DefaultRetryDelay
  /\ InitTranslator

NextOps ==
  \/ AddProcessed
  \/ IsProcessed
  \/ GetState
  \/ Cleanup
  \/ Save
  \/ RotateCopy
  \/ RotatePrune
  \/ WriteTmp
  \/ Replace
  \/ SaveExcept
  \/ SaveReturn

SpecOps == InitOps /\ [][NextOps]_vars

(* -------------------------------- main -------------------------------- *)
\* a journal of the list with the entries its feed yields
Journal(name, es) == [name |-> name, entries |-> es]

\* the feeds a run can meet: an id the ledger may hold and a new one; a new
\* id twice, an entry without abstract, a second journal
Feeds ==
  { << Journal("X", <<Entry(1, Text(1)), Entry(TrimLimit + 2, Text(1))>>) >>,
    << Journal("X", <<Entry(TrimLimit + 2, Text(FallbackLen + 1)),
                      Entry(TrimLimit + 2, Text(FallbackLen + 1))>>),
       Journal("Y", <<Entry(3, <<>>), Entry(4, Text(1))>>) >> }

\* what main() did with an entry, whether the ledger held its id when it
\* was met, and whether the summary it got was the fallback
Met(j, e, did, hit) ==
  [journal |-> j, id |-> e.id, did |-> did, hit |-> hit, fallback |-> FALSE]

\* a guard that looks at the oldest id of the journal only: C1 fails for it
skips_oldest_id_only(f, d, j, id) ==
  /\ ~f
  /\ j \in DOMAIN d
  /\ d[j].processed_ids # <<>>
  /\ d[j].processed_ids[1] = id

\* main.py:114: the entry is skipped
skips(f, d, j, id) == ~f /\ is_processed(d, j, id)

\* the process has ended and its variables are gone
main_leave ==
  /\ force' = FALSE
  /\ dry_run' = FALSE
  /\ feed' = <<>>
  /\ entries' = <<>>
  /\ journal_name' = ""
  /\ entry' = NoEntry
  /\ log' = <<>>
  /\ ogCalls' = 0
  /\ processed_count' = 0

\* main.py:73-105: a run starts: the arguments, the translator, the ledger
\* (constructed, hence loaded), the journal list, og.start_file
Start ==
  /\ pc = "none"
  /\ construct
  /\ \E f \in BOOLEAN, d \in BOOLEAN, js \in Feeds :
       /\ force' = f
       /\ dry_run' = d
       /\ feed' = js
       /\ ogCalls' = IF d THEN 0 ELSE 1
  /\ entries' = <<>>
  /\ journal_name' = ""
  /\ entry' = NoEntry
  /\ log' = <<>>
  /\ processed_count' = 0
  /\ pc' = "journals"
  /\ UNCHANGED <<transConfig, transVars>>

\* main.py:107-111: the next journal: og.start_journal_section, iter_papers
StartJournal ==
  /\ pc = "journals"
  /\ feed # <<>>
  /\ journal_name' = Head(feed).name
  /\ entries' = Head(feed).entries
  /\ feed' = Tail(feed)
  /\ ogCalls' = IF dry_run THEN ogCalls ELSE ogCalls + 1
  /\ pc' = "entries"
  /\ UNCHANGED <<now, fs, data, config, saveVars, lastCall, fuel, transConfig,
                 transVars, force, dry_run, entry, log, processed_count>>

\* main.py:112-124: the next entry: skipped when processed, skipped without
\* an abstract, recorded at once in a dry run, and otherwise translated
ProcessEntry ==
  /\ pc = "entries"
  /\ entries # <<>>
  /\ LET e == Head(entries)
         hit == is_processed(data, journal_name, e.id)
     IN IF skips(force, data, journal_name, e.id)
        THEN /\ log' = Append(log, Met(journal_name, e, "skip", hit))
             /\ entries' = Tail(entries)
             /\ UNCHANGED <<pc, data, lastCall, transVars, entry, processed_count>>
        ELSE IF e.abstract = <<>>
        THEN /\ log' = Append(log, Met(journal_name, e, "no abstract", hit))
             /\ entries' = Tail(entries)
             /\ UNCHANGED <<pc, data, lastCall, transVars, entry, processed_count>>
        ELSE IF dry_run
        THEN /\ log' = Append(log, Met(journal_name, e, "dry-run", hit))
             /\ data' = add_processed(data, journal_name, e.id, now)
             /\ lastCall' = Call("add_processed", journal_name, e.id, hit)
             /\ processed_count' = processed_count + 1
             /\ entries' = Tail(entries)
             /\ UNCHANGED <<pc, transVars, entry>>
        ELSE /\ log' = Append(log, Met(journal_name, e, "translate", hit))
             /\ translate_enter(e.abstract)
             /\ entry' = e
             /\ pc' = "translate"
             /\ UNCHANGED <<data, lastCall, entries, processed_count>>
  /\ UNCHANGED <<now, fs, config, saveVars, fuel, transConfig, force, dry_run,
                 feed, journal_name, ogCalls>>

\* a main() that reports a fallback summary but does not record the paper:
\* C29 fails for it
RecordPaper_drops_fallback ==
  /\ pc = "translate"
  /\ tpc = "returned"
  /\ translate_leave
  /\ ogCalls' = ogCalls + 1
  /\ data' = IF raised # NoError THEN data
             ELSE add_processed(data, journal_name, entry.id, now)
  /\ lastCall' = IF raised # NoError THEN lastCall
                 ELSE Call("add_processed", journal_name, entry.id,
                           is_processed(data, journal_name, entry.id))
  /\ processed_count' = processed_count + 1
  /\ log' = [log EXCEPT ![Len(log)].fallback = (raised # NoError)]
  /\ entries' = Tail(entries)
  /\ pc' = "entries"
  /\ UNCHANGED <<now, fs, config, saveVars, fuel, transConfig, force, dry_run, feed,
                 journal_name, entry>>

\* main.py:124-127: translate() has returned: og.add_paper, add_processed
RecordPaper ==
  /\ pc = "translate"
  /\ tpc = "returned"
  /\ translate_leave
  /\ ogCalls' = ogCalls + 1
  /\ data' = add_processed(data, journal_name, entry.id, now)
  /\ lastCall' = Call("add_processed", journal_name, entry.id,
                      is_processed(data, journal_name, entry.id))
  /\ processed_count' = processed_count + 1
  /\ log' = [log EXCEPT ![Len(log)].fallback = (raised # NoError)]
  /\ entries' = Tail(entries)
  /\ pc' = "entries"
  /\ UNCHANGED <<now, fs, config, saveVars, fuel, transConfig, force, dry_run, feed,
                 journal_name, entry>>

\* main.py:128-129: the journal's entries are done: og.end_journal_section
EndJournal ==
  /\ pc = "entries"
  /\ entries = <<>>
  /\ ogCalls' = IF dry_run THEN ogCalls ELSE ogCalls + 1
  /\ pc' = "journals"
  /\ UNCHANGED <<now, fs, data, config, saveVars, lastCall, fuel, transConfig,
                 transVars, force, dry_run, feed, entries, journal_name, entry, log,
                 processed_count>>

\* a main() that cleans up and saves after each journal: C18 fails for it
MainCleanup_each_journal ==
  /\ pc = "journals"
  /\ data' = cleanup(data, now, retention_days)
  /\ lastCall' = Call("cleanup", "", 0, FALSE)
  /\ pc' = "cleaned"
  /\ UNCHANGED <<now, fs, config, saveVars, fuel, transConfig, transVars, mainVars>>

\* main.py:131: pm.cleanup()
MainCleanup ==
  /\ pc = "journals"
  /\ feed = <<>>
  /\ data' = cleanup(data, now, retention_days)
  /\ lastCall' = Call("cleanup", "", 0, FALSE)
  /\ pc' = "cleaned"
  /\ UNCHANGED <<now, fs, config, saveVars, fuel, transConfig, transVars, mainVars>>

\* main.py:132: pm.save()
MainSave ==
  /\ pc = "cleaned"
  /\ save_enter
  /\ UNCHANGED <<fuel, transConfig, transVars, mainVars>>

\* main.py:133-145: save() has returned: og.end_file, and the process ends
Finish ==
  /\ pc = "saved"
  /\ pc' = "none"
  /\ data' = EmptyLedger
  /\ oldFiles' = <<>>
  /\ saveErr' = FALSE
  /\ rmFailed' = FALSE
  /\ preFs' = EmptyDir
  /\ preData' = EmptyLedger
  /\ main_leave
  /\ UNCHANGED <<now, fs, config, lastCall, fuel, transConfig, transVars>>

\* the process that runs main() is killed
KillRun ==
  /\ kill_process
  /\ translate_leave
  /\ main_leave
  /\ UNCHANGED transConfig

Init ==
  /\ InitProcess
  /\ pc = "none"
  /\ fs \in InitDisks
  /\ backup_count = DefaultBackupCount
  /\ retention_days \in RetentionChoices
  /\ fuel = MainFuel
  /\ max_retries = MainRetries
  /\ retry_delay = DefaultRetryDelay
  /\ InitTranslator

Next ==
  \/ Start
  \/ StartJournal
  \/ ProcessEntry
  \/ RequestSucceeds
  \/ RequestFails
  \/ Sleep
  \/ RecordPaper
  \/ EndJournal
  \/ MainCleanup
  \/ MainSave
  \/ RotateCopy
  \/ RotatePrune
  \/ WriteTmp
  \/ Replace
  \/ SaveExcept
  \/ Finish
  \/ KillRun
  \/ Tick
  \/ CorruptLive

Spec == Init /\ [][Next]_vars

(* ------------------------------ properties ---------------------------- *)
SavePcs == {"copy", "prune", "write", "replace", "except"}

\* the live file of g is the live file of f: absent in both, or the same text
SameLive(f, g) ==
  /\ Exists(f, LiveName) <=> Exists(g, LiveName)
  /\ Exists(f, LiveName) => f[LiveName] = g[LiveName]

NoDuplicates(ids) == Cardinality(Range(ids)) = Len(ids)

\* the backups proper, named <file>.<timestamp>.bak, that json.load accepts
ParsingBaks(f) == {n \in DOMAIN f : n.kind = "bak" /\ Parses(f[n])}

NewestParsingBak(f) ==
  CHOOSE n \in ParsingBaks(f) : \A m \in ParsingBaks(f) : m.ts <= n.ts

\* the process has just loaded: the directory is still the one load() read
JustLoaded == pc = "ready" /\ lastCall.op = "load"

\* C1: in a run without --force, no entry is handed to translate() whose id
\* the ledger held for its journal when the entry was met, whether the id was
\* loaded or added earlier in the run.
C1_ProcessedNeverTranslated ==
  ~force =>
    /\ \A i \in 1..Len(log) : log[i].did = "translate" => ~log[i].hit
    /\ pc = "translate" => ~is_processed(data, journal_name, entry.id)

\* C1 witness: a run without --force translated an entry, recorded it, and
\* skipped a later entry with the same id, which the loaded ledger did not
\* hold.
C1_Witness ==
  /\ ~force
  /\ ~dry_run
  /\ \E i, k \in 1..Len(log) :
       /\ i < k
       /\ log[i].did = "translate"
       /\ log[k].did = "skip"
       /\ log[k].hit
       /\ log[i].journal = log[k].journal
       /\ log[i].id = log[k].id

\* a step taken inside save() leaves the live file alone or makes it the text
\* of the ledger being saved
LiveKeptOrWhole ==
  (pc \in SavePcs) =>
    \/ SameLive(fs, fs')
    \/ Exists(fs', LiveName) /\ fs'[LiveName] = Serialize(data)

\* C2: every step taken inside save(), a kill of the process included, leaves
\* the live file as it was (absent if it was absent) or makes it the complete
\* text of the ledger being saved; it is never part of a text.
C2_LiveNeverPartial == [][LiveKeptOrWhole]_vars

\* C2 witness: the temporary-file write stopped early, the temporary file holds
\* part of the text and the live file still parses.
C2_Witness ==
  /\ pc \in {"except", "none"}
  /\ Exists(fs, TmpName)
  /\ ~Parses(fs[TmpName])
  /\ Exists(fs, LiveName)
  /\ Parses(fs[LiveName])

\* C3: when save() has returned without entering its except branch, load()
\* on the directory yields the in-memory ledger: the same journals, and for
\* each the same record with processed_ids in the same order.
C3_SaveLoadRoundTrip ==
  (pc = "saved" /\ ~saveErr) => load(fs) = data

\* C3 witness: a successful save of a ledger with a journal whose ids are not
\* in ascending order.
C3_Witness ==
  /\ pc = "saved"
  /\ ~saveErr
  /\ \E j \in DOMAIN data :
       \E i \in 1..(Len(data[j].processed_ids) - 1) :
         data[j].processed_ids[i] > data[j].processed_ids[i + 1]

\* C4: when the live file exists and does not parse and some .bak backup
\* parses, load() leaves exactly the contents of the newest .bak that parses.
C4_RecoversNewestBackup ==
  ( /\ JustLoaded
    /\ Exists(fs, LiveName)
    /\ ~Parses(fs[LiveName])
    /\ ParsingBaks(fs) # {} )
  => data = ParseOf(fs[NewestParsingBak(fs)])

\* C4 witness: load() recovered from a backup while the live file was invalid.
C4_Witness ==
  /\ JustLoaded
  /\ Exists(fs, LiveName)
  /\ ~Parses(fs[LiveName])
  /\ ParsingBaks(fs) # {}
  /\ data = ParseOf(fs[NewestParsingBak(fs)])
  /\ data # EmptyLedger

\* C5: after load() the ledger is empty when the live file is absent, and
\* when the live file does not parse and no .bak backup parses.
C5_LoadFallsBackToEmpty ==
  JustLoaded =>
    /\ ~Exists(fs, LiveName) => data = EmptyLedger
    /\ ( /\ Exists(fs, LiveName)
         /\ ~Parses(fs[LiveName])
         /\ ParsingBaks(fs) = {} ) => data = EmptyLedger

\* C6 as stated: when save() returns after a failed step, no temporary file
\* is left, the live file is as before and the in-memory ledger is unchanged.
C6_FailedSaveLeavesNoTmp ==
  (pc = "saved" /\ saveErr) =>
    /\ ~Exists(fs, TmpName)
    /\ SameLive(fs, preFs)
    /\ data = preData

\* C6 amended: when save() returns after a failed step, the temporary file
\* is gone unless removing it failed too, the live file is as before and the
\* in-memory ledger is unchanged.
C6_FailedSaveCleansUp ==
  (pc = "saved" /\ saveErr) =>
    /\ Exists(fs, TmpName) => rmFailed
    /\ SameLive(fs, preFs)
    /\ data = preData

\* C6 witness: a save that failed after the temporary file was written has
\* returned, the temporary file is gone and the ledger in memory differs from
\* the one on disk.
C6_Witness ==
  /\ pc = "saved"
  /\ saveErr
  /\ ~rmFailed
  /\ ~Exists(fs, TmpName)
  /\ Exists(fs, LiveName)
  /\ Parses(fs[LiveName])
  /\ ParseOf(fs[LiveName]) # data

\* C7: no processed_ids list holds an id twice, and calling add_processed
\* again with the arguments of a call just made changes no processed_ids.
C7_NoDuplicateIds ==
  /\ \A j \in DOMAIN data : NoDuplicates(data[j].processed_ids)
  /\ lastCall.op = "add_processed" =>
       LET again == add_processed(data, lastCall.journal, lastCall.paper_id, now)
       IN \A j \in DOMAIN data : again[j].processed_ids = data[j].processed_ids

\* C7 witness: add_processed was called with an id the journal already held,
\* after a cleanup or another call.
C7_Witness ==
  /\ lastCall.op = "add_processed"
  /\ lastCall.hit
  /\ fuel <= CallsFuel - 2
  /\ Len(data[lastCall.journal].processed_ids) >= 2

\* translate() has returned after _retry_loop re-raised
Exhausted == tpc = "returned" /\ raised # NoError

\* C8: when the retry budget is exhausted, translate() returns, and its
\* korean_summary is the abstract itself if the abstract has at most 300
\* characters, and otherwise its first 300 characters followed by "...".
C8_FallbackTruncates ==
  Exhausted =>
    /\ result.set
    /\ IF Len(abstract) <= 300
       THEN result.korean_summary = abstract
       ELSE /\ Len(result.korean_summary) = 303
            /\ \A i \in 1..300 : result.korean_summary[i] = abstract[i]
            /\ \A i \in 301..303 : result.korean_summary[i] = 46

\* C8 witness: the budget was exhausted on an abstract of exactly 300
\* characters under the default max_retries.
C8_Witness ==
  /\ Exhausted
  /\ max_retries = DefaultMaxRetries
  /\ Len(abstract) = 300

\* translate() returned a result with both fields, for the abstract passed in
WellFormed ==
  /\ result.set
  /\ result.english_abstract = abstract
  /\ Len(result.korean_summary) > 0

\* C9: whatever the backend does, a call of translate() returns, and what it
\* returns has both fields, english_abstract being the abstract passed in.
C9_TranslateAlwaysReturns ==
  /\ [](tpc = "returned" => WellFormed)
  /\ (tpc = "request") ~> (tpc = "returned")

\* C9 witness: translate() returned after failures of the backend followed by
\* a reply without the text field.
C9_Witness ==
  /\ tpc = "returned"
  /\ err # NoError
  /\ raised = NoError
  /\ result.korean_summary = Placeholder
  /\ WellFormed

\* C10 as stated: an operation that fails on every attempt is invoked at most
\* max_retries times in all.
C10_AtMostMaxRetriesCalls ==
  Exhausted => invocations <= max_retries

\* C10 amended: an operation that fails on every attempt is invoked exactly
\* max_retries + 1 times (the first attempt and max_retries retries, 4 by
\* default), after which its last error is re-raised; no operation is invoked
\* more often.
C10_MaxRetriesPlusOneCalls ==
  /\ invocations <= max_retries + 1
  /\ Exhausted => (invocations = max_retries + 1 /\ raised = err)

\* C10 witness: under the default max_retries the operation failed four times
\* and the error left the retry loop.
C10_Witness ==
  /\ Exhausted
  /\ max_retries = DefaultMaxRetries
  /\ invocations = DefaultMaxRetries + 1
  /\ Len(sleeps) = DefaultMaxRetries

\* translate() returned what the third invocation returned, after two
\* failures
ThirdSucceeded ==
  /\ tpc = "returned"
  /\ raised = NoError
  /\ attempt = 2
  /\ max_retries = 3

\* C11 as stated: with max_retries = 3, after two failures and a success the
\* operation was invoked three times, its third result is returned, and the
\* sleeps are base_delay then 2 * base_delay.
C11_SleepsBaseThenDouble ==
  ThirdSucceeded =>
    /\ invocations = 3
    /\ result \in {Summary(abstract, ModelText), Summary(abstract, Placeholder)}
    /\ sleeps = <<retry_delay, 2 * retry_delay>>

\* C11 amended: with max_retries = 3, after two failures and a success the
\* operation was invoked three times, its third result is returned, and the
\* sleeps are base_delay then 2 * base_delay, each capped at 60 seconds.
C11_SleepsBaseThenDoubleCapped ==
  ThirdSucceeded =>
    /\ invocations = 3
    /\ result \in {Summary(abstract, ModelText), Summary(abstract, Placeholder)}
    /\ sleeps = << IF retry_delay < 60 THEN retry_delay ELSE 60,
                   IF 2 * retry_delay < 60 THEN 2 * retry_delay ELSE 60 >>

\* C11 witness: two failures and a success under the default delay, with the
\* text of the model returned and the sleeps 2 and 4.
C11_Witness ==
  /\ ThirdSucceeded
  /\ retry_delay = DefaultRetryDelay
  /\ result.korean_summary = ModelText
  /\ sleeps = <<2, 4>>

\* C12: the loop has started as many sleeps as it has seen failures while it
\* goes on, one fewer than invocations once it is left (so none after the
\* failure that exhausts the budget), and every sleep leads to another
\* invocation.
C12_NoSleepAfterLastFailure ==
  /\ [](tpc \in {"request", "sleep"} => Len(sleeps) = invocations)
  /\ [](tpc = "returned" => Len(sleeps) = invocations - 1)
  /\ [](Exhausted => Len(sleeps) = max_retries)
  /\ [][tpc = "sleep" => (tpc' = "request" /\ invocations' = invocations)]_vars
  /\ (tpc = "sleep") ~> (invocations > Len(sleeps))

\* C12 witness: the budget of one retry was exhausted after one sleep and two
\* invocations.
C12_Witness ==
  /\ Exhausted
  /\ max_retries = 1
  /\ invocations = 2
  /\ Len(sleeps) = 1

\* C13: the k-th delay is min(base_delay * 2^(k-1), 60); no delay is above
\* 60 and the delays do not decrease.
C13_BackoffFormula ==
  /\ \A k \in 1..Len(sleeps) :
       /\ sleeps[k] = (IF retry_delay * (2 ^ (k - 1)) < 60
                       THEN retry_delay * (2 ^ (k - 1)) ELSE 60)
       /\ sleeps[k] <= 60
  /\ \A k \in 1..(Len(sleeps) - 1) : sleeps[k] <= sleeps[k + 1]

\* C13 witness: a delay below the cap followed by a capped one.
C13_Witness ==
  /\ Len(sleeps) >= 2
  /\ sleeps[1] = 40
  /\ sleeps[2] = 60

\* the step is a call of cleanup(): a step of the environment that is not a
\* tick of the clock and leaves cleanup as the method called last
CleanupStep == fuel' = fuel - 1 /\ now' = now /\ lastCall'.op = "cleanup"

\* a call of cleanup() leaves every journal it keeps with the last 500 of its
\* ids when it had more, and with its ids unchanged otherwise
TrimsToLast500 ==
  CleanupStep =>
    \A j \in DOMAIN data' :
      LET old == data[j].processed_ids
          new == data'[j].processed_ids
      IN IF Len(old) > 500
         THEN /\ Len(new) = 500
              /\ \A i \in 1..500 : new[i] = old[Len(old) - 500 + i]
         ELSE new = old

EvictsExactlyStale ==
  CleanupStep =>
    /\ DOMAIN data' \subseteq DOMAIN data
    /\ \A j \in DOMAIN data :
         (j \notin DOMAIN data') <=>
           ( /\ data[j].last_processed # None
             /\ data[j].last_processed # BadStamp
             /\ data[j].last_processed < now - retention_days * DayTicks )
    /\ \A j \in DOMAIN data :
         /\ data[j].last_processed = None => j \in DOMAIN data'
         /\ (retention_days = 90 /\ data[j].last_processed = now - 91 * DayTicks)
              => j \notin DOMAIN data'
         /\ (retention_days = 90 /\ data[j].last_processed = now - 89 * DayTicks)
              => j \in DOMAIN data'

\* C15: cleanup() removes a journal if and only if its last_processed is
\* non-null and strictly older than now minus retention_days; a null
\* last_processed is never removed; with retention 90 a journal processed 91
\* days ago goes and one processed 89 days ago stays.
C15_EvictsIffStale == [][EvictsExactlyStale]_vars

\* C15 witness: under retention 90, cleanup() removed the journal processed
\* 91 days before and kept the one that was never processed.
C15_Witness ==
  /\ lastCall.op = "cleanup"
  /\ retention_days = 90
  /\ now = T0
  /\ DOMAIN data = {"X"}
  /\ data["X"].last_processed = None

\* a second reachable case of C15: the journal processed 89 days before is
\* still there after cleanup()
KeptAt89Days ==
  /\ lastCall.op = "cleanup"
  /\ retention_days = 90
  /\ now = T0
  /\ "X" \in DOMAIN data
  /\ data["X"].last_processed = T0 - 89 * DayTicks

\* the backups proper, named <file>.<timestamp>.bak
Baks(f) == {n \in DOMAIN f : n.kind = "bak"}

NewestBak(f) == CHOOSE n \in Baks(f) : \A m \in Baks(f) : m.ts <= n.ts

\* the k names of S with the greatest timestamps
NewestK(S, k) == {n \in S : Cardinality({m \in S : m.ts > n.ts}) < k}

\* save() has returned without entering its except branch, and there was a
\* live file when it was entered
SavedOverLive == pc = "saved" /\ ~saveErr /\ Exists(preFs, LiveName)

\* C16: after a successful save() over an existing live file with
\* backup_count >= 1, the newest backup holds the live file's contents as
\* they were before that save.
C16_NewestBackupIsPreviousLive ==
  (SavedOverLive /\ backup_count >= 1) =>
    /\ Baks(fs) # {}
    /\ fs[NewestBak(fs)] = preFs[LiveName]

\* C16 witness: a successful save() over a live file that differs from the
\* ledger saved, the newest backup holding the previous contents.
C16_Witness ==
  /\ SavedOverLive
  /\ backup_count >= 1
  /\ Baks(fs) # {}
  /\ fs[NewestBak(fs)] = preFs[LiveName]
  /\ fs[LiveName] # preFs[LiveName]

\* a successful save() over a live file found a temporary file left behind
\* and, with backup_count = 1, removed the backup it had just made
FreshBackupPruned ==
  /\ SavedOverLive
  /\ backup_count = 1
  /\ Exists(preFs, TmpName)
  /\ Baks(fs) = {}

\* C17: when save() has returned there are at most backup_count backups, and
\* after a successful save() over a live file they are the backup_count
\* newest of the earlier backups and the one just made.
C17_AtMostBackupCountNewest ==
  /\ pc = "saved" => Cardinality(Baks(fs)) <= backup_count
  /\ SavedOverLive =>
       Baks(fs) = NewestK(Baks(preFs) \cup {BakName(now)}, backup_count)

\* when save() has returned without an error the backups number at most
\* backup_count
SuccessfulSaveBoundsBackups ==
  (pc = "saved" /\ ~saveErr) => Cardinality(Baks(fs)) <= backup_count

(* ---------------------- runs that are not killed ----------------------- *)
\* a step main() takes once it has started
RunStep ==
  \/ StartJournal
  \/ ProcessEntry
  \/ RequestSucceeds
  \/ RequestFails
  \/ Sleep
  \/ RecordPaper
  \/ EndJournal
  \/ MainCleanup
  \/ MainSave
  \/ RotateCopy
  \/ RotatePrune
  \/ WriteTmp
  \/ Replace
  \/ SaveExcept
  \/ Finish

\* how many runs are started where runs are not killed
RunFuel == 1

InitRun ==
  /\ InitProcess
  /\ pc = "none"
  /\ fs \in InitDisks
  /\ backup_count = DefaultBackupCount
  /\ retention_days \in RetentionChoices
  /\ fuel = RunFuel
  /\ max_retries = MainRetries
  /\ retry_delay = DefaultRetryDelay
  /\ InitTranslator

NextRun ==
  \/ Start
  \/ RunStep

\* main.py:107-134 has no blocking call but the request, which has a timeout
\* (translator.py:136), and time.sleep, which returns: a run that is not
\* killed goes on
FairRun == InitRun /\ [][NextRun]_vars /\ WF_vars(RunStep)

\* where main() is before it calls cleanup()
LoopPcs == {"journals", "entries", "translate"}

\* a step of a run: the files change only inside save(); cleanup() is
\* entered only when no journal and no entry is left; save() is entered only
\* from the state cleanup() leaves, with the ledger cleanup() left; and after
\* save() is entered the run only finishes save() and ends
FlushedOnceAtEnd ==
  /\ pc \in LoopPcs \cup {"cleaned"} => fs' = fs
  /\ (pc' = "cleaned" /\ pc # "cleaned") =>
       (pc = "journals" /\ feed = <<>> /\ entries = <<>>)
  /\ pc = "cleaned" =>
       (pc' \in {"cleaned", "copy", "write", "none"} /\ (pc' # "none" => data' = data))
  /\ (pc' \in SavePcs /\ pc \notin SavePcs) =>
       (pc = "cleaned" /\ lastCall.op = "cleanup" /\ lastCall'.op = "save")
  /\ pc \in SavePcs \cup {"saved"} =>
       (pc' \in SavePcs \cup {"saved", "none"} /\ (pc' # "none" => data' = data))
  /\ pc \in SavePcs => (feed = <<>> /\ entries = <<>>)
  /\ (pc \in SavePcs /\ ~SameLive(fs, fs')) => (pc = "replace" /\ pc' = "saved")

\* C18: in a run the files are untouched until every journal has been
\* processed (so a crash before then leaves them as loaded), cleanup() is
\* called once, immediately before save(), save() is called once, and the
\* live file is written once, by the rename that ends a successful save().
C18_SavedOnceAtEnd == [][FlushedOnceAtEnd]_vars

\* C18 witness: a run that translated an entry has saved, and the live file
\* differs from the one it loaded.
C18_Witness ==
  /\ pc = "saved"
  /\ ~saveErr
  /\ \E i \in 1..Len(log) : log[i].did = "translate"
  /\ ~SameLive(fs, preFs)

\* a second reachable case of C18: a run was killed while it waited for a
\* translation, after it had recorded a paper
KilledInLoop ==
  /\ pc = "translate"
  /\ processed_count > 0
  /\ ENABLED KillRun

\* every entry handed to translate() before the current one is in the
\* ledger, as long as cleanup() has not run
TranslatedAreRecorded ==
  pc \in LoopPcs =>
    \A i \in 1..Len(log) :
      (log[i].did = "translate" /\ (i < Len(log) \/ pc # "translate")) =>
        is_processed(data, log[i].journal, log[i].id)

\* C19: whatever the backend does, translate() hands main() a result for
\* every paper it is called for, the paper is then recorded with
\* add_processed, and the run goes on until save() has returned (which it
\* enters from cleanup() only).
C19_RunSurvivesBackendFailures ==
  /\ []((pc = "translate" /\ tpc = "returned") => WellFormed)
  /\ []TranslatedAreRecorded
  /\ (pc = "translate") ~> (pc = "saved")

\* C19 witness: in a run that has recorded a paper, translate() has handed
\* main() the fallback after the backend failed on every attempt.
C19_Witness ==
  /\ pc = "translate"
  /\ Exhausted
  /\ WellFormed
  /\ processed_count > 0

\* the processed_ids of journal j in ledger d, none when d lacks j
IdsOf(d, j) == IF j \in DOMAIN d THEN d[j].processed_ids ELSE <<>>

\* the entry met i-th was handed on (translated, or taken in a dry run) and
\* has been recorded, and the ledger did not hold its id
NewlyProcessed(i) ==
  /\ log[i].did \in {"translate", "dry-run"}
  /\ ~log[i].hit
  /\ i < Len(log) \/ pc # "translate"

RECURSIVE NewIdsFrom(_, _)
\* the ids newly processed for journal j among the entries met from the i-th
\* on, in the order they were met
NewIdsFrom(j, i) ==
  IF i > Len(log) THEN <<>>
  ELSE (IF log[i].journal = j /\ NewlyProcessed(i) THEN <<log[i].id>> ELSE <<>>)
       \o NewIdsFrom(j, i + 1)

\* the list the run loaded for j followed by the ids it newly processed
LoadedThenNew(j) == IdsOf(load(fs), j) \o NewIdsFrom(j, 1)

\* C20: in a run, every journal's processed_ids is the list loaded followed
\* by the ids newly processed, in the order they were met; after cleanup()
\* the same holds of every journal that was not evicted and whose list is
\* not longer than 500.
C20_LoadedThenNewInOrder ==
  /\ pc \in LoopPcs =>
       \A j \in Journals : IdsOf(data, j) = LoadedThenNew(j)
  /\ pc = "cleaned" =>
       \A j \in DOMAIN data :
         Len(LoadedThenNew(j)) <= 500 => data[j].processed_ids = LoadedThenNew(j)

\* C20 witness: a run without --force that loaded X with the one id 1 and met
\* the ids 1 and 502, both with abstracts, has called cleanup(), and X holds
\* 1 then 502.
C20_Witness ==
  /\ pc = "cleaned"
  /\ ~force
  /\ IdsOf(load(fs), "X") = <<1>>
  /\ Len(log) = 2
  /\ log[1].id = 1 /\ log[1].did = "skip"
  /\ log[2].id = 502 /\ log[2].did = "translate"
  /\ IdsOf(data, "X") = <<1, 502>>

\* the step is a call of is_processed
IsProcessedStep == fuel' = fuel - 1 /\ now' = now /\ lastCall'.op = "is_processed"

\* a call of is_processed returns whether the journal is in the ledger with
\* the id in its processed_ids, and leaves the ledger and the files as they
\* were
LooksUpOnly ==
  IsProcessedStep =>
    /\ lastCall'.hit <=>
         /\ lastCall'.journal \in DOMAIN data
         /\ \E i \in 1..Len(data[lastCall'.journal].processed_ids) :
              data[lastCall'.journal].processed_ids[i] = lastCall'.paper_id
    /\ lastCall'.journal \notin DOMAIN data => ~lastCall'.hit
    /\ data' = data
    /\ fs' = fs

\* C21: is_processed returns true exactly when the id is in the journal's
\* processed_ids, false for an absent journal or id, and changes nothing:
\* no record is created and no timestamp touched.
C21_IsProcessedPureLookup == [][LooksUpOnly]_vars

\* C21 witness: is_processed was called for a journal the ledger lacks while
\* it holds another, returned false, and the journal is still absent.
C21_Witness ==
  /\ lastCall.op = "is_processed"
  /\ ~lastCall.hit
  /\ lastCall.journal \notin DOMAIN data
  /\ data # EmptyLedger

RECURSIVE IsSubseq(_, _)
\* the elements of a occur in b, in the order they have in a
IsSubseq(a, b) ==
  IF a = <<>> THEN TRUE
  ELSE IF b = <<>> THEN FALSE
  ELSE IF Head(a) = Head(b) THEN IsSubseq(Tail(a), Tail(b))
  ELSE IsSubseq(a, Tail(b))

\* a step that is not a call of cleanup() keeps every journal, and every id
\* of it in its place relative to the others
KeepsIdsUnlessCleanup ==
  ~CleanupStep =>
    \A j \in DOMAIN data :
      /\ j \in DOMAIN data'
      /\ IsSubseq(data[j].processed_ids, data'[j].processed_ids)

\* C22: add_processed, is_processed, save and get_state leave every journal
\* with all the ids it had, in the same relative order; only cleanup()
\* removes ids.
C22_IdsRemovedOnlyByCleanup == [][KeepsIdsUnlessCleanup]_vars

\* C22 witness: add_processed has appended an id to a list that was not
\* empty.
C22_Witness ==
  /\ lastCall.op = "add_processed"
  /\ ~lastCall.hit
  /\ Len(data[lastCall.journal].processed_ids) >= 2

\* a second reachable case of C22: cleanup() has removed a journal
CleanupRemovedJournal ==
  /\ lastCall.op = "cleanup"
  /\ DOMAIN data # DOMAIN load(fs)

\* translate() has returned what an invocation of do_request returned
Succeeded == tpc = "returned" /\ raised = NoError

\* the step in which the placeholder becomes the result is the return of
\* translate(): no failure is counted, no delay is added, nothing is raised
PlaceholderEndsCall ==
  (tpc = "request" /\ result'.set /\ result'.korean_summary = Placeholder) =>
    /\ tpc' = "returned"
    /\ invocations' = invocations + 1
    /\ attempt' = attempt
    /\ sleeps' = sleeps
    /\ raised' = NoError

\* C23: a reply with success status and no text field ends translate() at
\* once: it returns the placeholder as korean_summary with the abstract as
\* english_abstract, nothing is raised, the request is not retried, and the
\* truncation fallback is not used.
C23_PlaceholderCountsAsSuccess ==
  /\ [][PlaceholderEndsCall]_vars
  /\ [](Succeeded =>
          /\ result.english_abstract = abstract
          /\ result.korean_summary \in {ModelText, Placeholder}
          /\ invocations = attempt + 1
          /\ Len(sleeps) = attempt)
  /\ []((tpc = "returned" /\ result.korean_summary = Placeholder) =>
          (Succeeded /\ result # fallback(abstract)))

\* C23 witness: the first reply lacked the text field and translate()
\* returned the placeholder for an abstract longer than 300 characters.
C23_Witness ==
  /\ Succeeded
  /\ result.korean_summary = Placeholder
  /\ invocations = 1
  /\ err = NoError
  /\ Len(abstract) > FallbackLen

\* the last_success of journal j in ledger d, null when d lacks j
LastSuccessOf(d, j) == IF j \in DOMAIN d THEN d[j].last_success ELSE None

\* a step of the loop of main() gives a journal a new last_success only when
\* it records a paper whose translation was returned by the backend
StampsOnlyGenuineSuccess ==
  (pc \in LoopPcs /\ pc' \in LoopPcs) =>
    \A j \in DOMAIN data' :
      LastSuccessOf(data', j) # LastSuccessOf(data, j) =>
        /\ pc = "translate"
        /\ Succeeded
        /\ j = journal_name

\* C24: a journal's last_success changes only when a translation for that
\* journal was returned by the backend; not when the fallback was returned,
\* and not when nothing was translated.
C24_LastSuccessOnlyOnSuccess == [][StampsOnlyGenuineSuccess]_vars

\* C24 witness: translate() has handed main() the fallback for a paper of a
\* journal that has no last_success, and main() is about to record the paper.
C24_Witness ==
  /\ pc = "translate"
  /\ Exhausted
  /\ LastSuccessOf(data, journal_name) = None
  /\ ENABLED RecordPaper

\* a step of a running process leaves every journal it keeps with the
\* error_count it had, and a journal it creates with 0
KeepsErrorCount ==
  (pc # "none" /\ pc' # "none") =>
    \A j \in DOMAIN data' :
      data'[j].error_count = (IF j \in DOMAIN data THEN data[j].error_count ELSE 0)

\* C25: error_count is 0 in every record add_processed creates and keeps its
\* loaded value otherwise, through add_processed, cleanup, save and
\* translate, translations that exhaust their retries included; what load()
\* yields after a successful save() has the same counts.
C25_ErrorCountUntouched ==
  /\ [][KeepsErrorCount]_vars
  /\ []((pc = "saved" /\ ~saveErr) =>
          \A j \in DOMAIN data : load(fs)[j].error_count = data[j].error_count)

\* C25 witness: a run that loaded journal Y with error_count 7 has recorded
\* a paper for it and saved, and the count is 7.
C25_Witness ==
  /\ pc = "saved"
  /\ ~saveErr
  /\ "Y" \in DOMAIN data
  /\ data["Y"].error_count = 7
  /\ lastCall.op = "save"
  /\ processed_count > 0
  /\ Len(data["Y"].processed_ids) = 2

\* the live file or some backup parses as a complete ledger
SomeCopyParses(f) ==
  \/ Exists(f, LiveName) /\ Parses(f[LiveName])
  \/ ParsingBaks(f) # {}

\* a step taken inside save(), a kill included, leaves a file that parses
\* among the live file and the backups if there was one when save() began
KeepsAParsingCopy ==
  (pc \in SavePcs /\ SomeCopyParses(preFs)) => SomeCopyParses(fs')

\* C26: if the live file or a backup parses when save() begins, then after
\* every step of save(), failed steps and kills included, the live file or
\* a backup still parses, for every backup_count.
C26_SaveKeepsAParsingCopy == [][KeepsAParsingCopy]_vars

\* C26 witness: a save() that began with a live file that does not parse
\* and a backup that does has returned without an error.
C26_Witness ==
  /\ pc = "saved"
  /\ ~saveErr
  /\ Exists(preFs, LiveName)
  /\ ~Parses(preFs[LiveName])
  /\ ParsingBaks(preFs) # {}

\* save() began with a live file that does not parse and an older backup
\* that does, copied the live file to a new backup, pruned the older one,
\* and nothing that parses is left before the temporary file is written
LastGoodBackupPruned ==
  /\ pc = "write"
  /\ Exists(preFs, LiveName)
  /\ ~Parses(preFs[LiveName])
  /\ \E n \in ParsingBaks(preFs) : n.ts < now /\ ~Exists(fs, n)
  /\ Exists(fs, BakName(now))
  /\ ~Exists(preFs, TmpName)
  /\ ~SomeCopyParses(fs)

\* load() found a live file that does not parse
Recovered == JustLoaded /\ Exists(fs, LiveName) /\ ~Parses(fs[LiveName])

\* C27: the temporary file is no backup: what recovery adopts is the
\* contents of a .bak file or nothing, and the files pruning sets out to
\* remove are .bak files that leave backup_count backups (or all there are)
\* in place.
C27_TmpIsNoBackup ==
  /\ Recovered =>
       data \in {EmptyLedger} \cup {ParseOf(fs[n]) : n \in ParsingBaks(fs)}
  /\ pc = "prune" =>
       /\ \A i \in 1..Len(oldFiles) : oldFiles[i].kind = "bak"
       /\ \/ Cardinality(Baks(fs) \ Range(oldFiles)) >= backup_count
          \/ Range(oldFiles) = {}

\* C27 witness: load() recovered from a backup while a temporary file with
\* the same contents lay beside it.
C27_Witness ==
  /\ Recovered
  /\ Exists(fs, TmpName)
  /\ ParsingBaks(fs) # {}
  /\ data = ParseOf(fs[NewestParsingBak(fs)])

\* pruning has listed the temporary file among the files to remove
TmpListedForPruning ==
  /\ pc = "prune"
  /\ \E i \in 1..Len(oldFiles) : oldFiles[i].kind = "tmp"

\* load() has adopted the contents of the temporary file, which no backup
\* holds
TmpAdopted ==
  /\ Recovered
  /\ Exists(fs, TmpName)
  /\ Parses(fs[TmpName])
  /\ data = ParseOf(fs[TmpName])
  /\ \A n \in ParsingBaks(fs) : data # ParseOf(fs[n])
  /\ data # EmptyLedger

\* the entries a dry run met that the ledger did not hold and that have an
\* abstract
DryRunNew ==
  {i \in 1..Len(log) : ~log[i].hit /\ log[i].did # "no abstract"}

\* a dry run calls neither translate() nor the output generator
DryRunSilent ==
  dry_run =>
    /\ ogCalls = 0
    /\ tpc = "idle"
    /\ pc # "translate"
    /\ \A i \in 1..Len(log) : log[i].did # "translate"

\* a dry run records each such entry, and the ledger holds it while the loop
\* runs
DryRunRecords ==
  dry_run =>
    \A i \in DryRunNew :
      /\ log[i].did \in {"dry-run", "skip"}
      /\ log[i].did = "dry-run"
           \/ \E k \in 1..(i - 1) :
                /\ log[k].did = "dry-run"
                /\ log[k].journal = log[i].journal
                /\ log[k].id = log[i].id
      /\ pc \in LoopPcs => is_processed(data, log[i].journal, log[i].id)

\* what a dry run recorded is skipped by a run that loads what it saved
DryRunSkippedLater ==
  (dry_run /\ pc = "saved" /\ ~saveErr) =>
    \A i \in DryRunNew : skips(FALSE, load(fs), log[i].journal, log[i].id)

\* C28: a dry run calls neither translate() nor the output generator, yet
\* records every entry with an abstract that the ledger did not hold, cleans
\* up and saves, so that a later run without --force that loads the saved
\* ledger skips those entries.
C28_DryRunRecordsUntranslated ==
  /\ DryRunSilent
  /\ DryRunRecords
  /\ DryRunSkippedLater

\* C28 witness: a dry run has recorded a new entry without translating it
\* and saved, and a later run would skip the entry.
C28_Witness ==
  /\ dry_run
  /\ pc = "saved"
  /\ ~saveErr
  /\ ogCalls = 0
  /\ \E i \in DryRunNew :
       /\ log[i].did = "dry-run"
       /\ skips(FALSE, load(fs), log[i].journal, log[i].id)

\* a dry run with retention_days = 0 has saved a ledger without the journal
\* whose entry it recorded
DryRunRecordLost ==
  /\ dry_run
  /\ retention_days = 0
  /\ pc = "saved"
  /\ ~saveErr
  /\ \E i \in DryRunNew :
       /\ log[i].did = "dry-run"
       /\ log[i].journal \notin DOMAIN load(fs)

\* C28 apart from the eviction at retention_days = 0
DryRunWithRetention ==
  /\ DryRunSilent
  /\ DryRunRecords
  /\ retention_days > 0 => DryRunSkippedLater

\* main() takes the result of translate() and records the paper
RecordStep == pc = "translate" /\ pc' = "entries"

\* the fallback is recorded as a translation is: the same add_processed,
\* the same call of the output generator, the same count
RecordsWhateverCame ==
  RecordStep =>
    /\ data' = add_processed(data, journal_name, entry.id, now)
    /\ is_processed(data', journal_name, entry.id)
    /\ ogCalls' = ogCalls + 1
    /\ processed_count' = processed_count + 1

\* the entries of this run that got the fallback summary
GotFallback == {i \in 1..Len(log) : log[i].fallback}

\* once save() has succeeded, a later run without --force skips each such
\* entry that this run's cleanup() left in the ledger
FallbackSkippedLater ==
  (pc = "saved" /\ ~saveErr) =>
    \A i \in GotFallback :
      is_processed(data, log[i].journal, log[i].id) =>
        skips(FALSE, load(fs), log[i].journal, log[i].id)

\* while the run goes on, and cleanup() has not run, the ledger holds each
\* such entry, so the run itself does not translate it again without --force
FallbackHeldInRun ==
  pc \in LoopPcs =>
    \A i \in GotFallback : skips(FALSE, data, log[i].journal, log[i].id)

\* C29: a paper that got the fallback summary is recorded with add_processed
\* as a translated one is; the ledger holds it for the rest of the run, and
\* once save() has succeeded a run without --force that loads the saved
\* ledger skips it, unless cleanup() trimmed its id or evicted its journal.
C29_FallbackIsRecorded ==
  /\ [][RecordsWhateverCame]_vars
  /\ []FallbackHeldInRun
  /\ []FallbackSkippedLater

\* C29 witness: a run has recorded a paper with the fallback summary and
\* saved, and a later run would skip the paper.
C29_Witness ==
  /\ pc = "saved"
  /\ ~saveErr
  /\ ~dry_run
  /\ \E i \in GotFallback :
       /\ ~log[i].hit
       /\ skips(FALSE, load(fs), log[i].journal, log[i].id)

\* the entries of this run for which add_processed was called
Recorded ==
  {i \in 1..Len(log) :
     /\ log[i].did \in {"translate", "dry-run"}
     /\ i < Len(log) \/ pc # "translate"}

\* C30: after the run's cleanup(), the ledger still has every journal for
\* which add_processed was called in the run, with the ids the run added,
\* whatever retention_days is, 0 included.
C30_RecordedSurvivesCleanup ==
  pc = "cleaned" =>
    \A i \in Recorded :
      /\ log[i].journal \in DOMAIN data
      /\ ~log[i].hit => is_processed(data, log[i].journal, log[i].id)

\* C30 witness: with retention_days = 0, cleanup() has run after a paper was
\* recorded and the ledger still holds it.
C30_Witness ==
  /\ pc = "cleaned"
  /\ retention_days = 0
  /\ \E i \in Recorded :
       /\ ~log[i].hit
       /\ is_processed(data, log[i].journal, log[i].id)

\* with retention_days = 0, cleanup() has evicted a journal for which
\* add_processed was called in the run
RecordedJournalEvicted ==
  /\ pc = "cleaned"
  /\ retention_days = 0
  /\ \E i \in Recorded : log[i].journal \notin DOMAIN data

\* C30 for the values of retention_days above 0
RecordedSurvivesWithRetention ==
  retention_days > 0 => C30_RecordedSurvivesCleanup

=============================================================================
